---- MODULE Spec2Model ----
(***************************************************************************)
(* Model of csv2xml.py: the CsvToXml tree builder (configuration / view / *)
(* zone resolution, record attachment, row dispatch).                     *)
(*                                                                         *)
(* Strings that the program inspects character by character (split on     *)
(* '.', lower(), upper(), interpolation into an XPath predicate) are      *)
(* sequences of one-character strings; <<>> is the empty string.          *)
(* Element tags, attribute names and header names are program constants   *)
(* and stay TLA+ strings.                                                  *)
(*                                                                         *)
(* The ElementTree is an arena: nodes[i] is an element with its tag, its  *)
(* attribute dictionary and the ordered list of its children (indices     *)
(* into the arena).  nodes[1] is self.root.                                *)
(***************************************************************************)
EXTENDS Integers, Sequences, FiniteSets, TLC

VARIABLES nodes, row, err, line_count, pc, fieldnames, csv_file

vars == <<nodes, row, err, line_count, pc, fieldnames, csv_file>>

(* ------------------------------ bounds -------------------------------- *)

\* number of rows the csv reader yields in one run when the content of the
\* file is left open
MaxRows == 2

\* number of rows of a file whose content is fixed before the run
MaxFileLen == 4

(* --------------------------- string helpers --------------------------- *)

EMPTY == <<>>

\* python truthiness of a str
Truthy(s) == s # EMPTY

ToLower ==
  [c \in {"A","B","C","D","E","F","G","H","I","J","K","L","M","N","O","P","Q",
          "R","S","T","U","V","W","X","Y","Z"} |->
     CASE c = "A" -> "a" [] c = "B" -> "b" [] c = "C" -> "c" [] c = "D" -> "d"
       [] c = "E" -> "e" [] c = "F" -> "f" [] c = "G" -> "g" [] c = "H" -> "h"
       [] c = "I" -> "i" [] c = "J" -> "j" [] c = "K" -> "k" [] c = "L" -> "l"
       [] c = "M" -> "m" [] c = "N" -> "n" [] c = "O" -> "o" [] c = "P" -> "p"
       [] c = "Q" -> "q" [] c = "R" -> "r" [] c = "S" -> "s" [] c = "T" -> "t"
       [] c = "U" -> "u" [] c = "V" -> "v" [] c = "W" -> "w" [] c = "X" -> "x"
       [] c = "Y" -> "y" [] c = "Z" -> "z"]

\* faulty variant of str.lower(): the string is returned as it is
lower_missing(s) == s

\* str.lower()
lower(s) == [i \in 1..Len(s) |-> IF s[i] \in DOMAIN ToLower THEN ToLower[s[i]] ELSE s[i]]

\* faulty variant of str.upper(): the string is returned as it is
upper_missing(s) == s

\* str.upper()
upper(s) ==
  [i \in 1..Len(s) |->
     IF \E c \in DOMAIN ToLower : ToLower[c] = s[i]
     THEN CHOOSE c \in DOMAIN ToLower : ToLower[c] = s[i]
     ELSE s[i]]

\* str(b) for a bool b
str(b) == IF b THEN <<"T","r","u","e">> ELSE <<"F","a","l","s","e">>

\* s.split('.') : the labels between the dots, left to right; always at
\* least one label (''.split('.') is [''])
RECURSIVE SplitFrom(_, _, _)
SplitFrom(s, i, cur) ==
  IF i > Len(s) THEN <<cur>>
  ELSE IF s[i] = "." THEN <<cur>> \o SplitFrom(s, i + 1, EMPTY)
  ELSE SplitFrom(s, i + 1, Append(cur, s[i]))

split(s) == SplitFrom(s, 1, EMPTY)

\* faulty variant of list.reverse(): the list is left in reading order
reverse_missing(l) == l

\* list.reverse()
reverse(l) == [i \in 1..Len(l) |-> l[Len(l) + 1 - i]]

(* ------------------------------ headers ------------------------------- *)

\* Header.all(), in declaration order
HeaderAll ==
  <<"OpType", "Config", "View", "ParentZone", "ZoneDeployFlag", "Name",
    "RecordType", "on-exist", "TTL", "HostAddress", "Rdata", "naptr-order",
    "naptr-Preference", "naptr-Service", "naptr-RegExp", "naptr-Replacement",
    "naptr-Flags", "SRV-Priority", "SRV-Weight", "SRV-Port", "SRV-Host">>

Headers == {HeaderAll[i] : i \in 1..Len(HeaderAll)}

\* OpType.*
OP_REMARK == <<"r","e","m","a","r","k">>
OP_CONFIG == <<"c","o","n","f","i","g">>
OP_VIEW == <<"v","i","e","w">>
OP_RECORD == <<"r","e","c","o","r","d">>
OP_ZONE == <<"z","o","n","e">>

\* RecordType.* as compared with the lower-cased RecordType field
RT_HOST == <<"h","o","s","t">>
RT_SRV == <<"s","r","v">>
RT_NAPTR == <<"n","a","p","t","r">>
RT_GENERICS == {<<"n","s">>, <<"a">>, <<"a","a","a","a">>}

(* ------------------------------ the tree ------------------------------ *)

NoExc == "none"
SyntaxError == "SyntaxError"

\* ET.Element(tag)
Element(tag) == [tag |-> tag, attrib |-> <<>>, children |-> <<>>]

\* faulty variant of ET.SubElement: the new element is inserted before the
\* children the parent already has
SubElement_prepend(ns, parent, tag) ==
  Append([ns EXCEPT ![parent].children = <<Len(ns) + 1>> \o @], Element(tag))

\* ET.SubElement(parent, tag): the new element is appended to the parent's
\* children; its index is Len(ns) + 1
SubElement(ns, parent, tag) ==
  Append([ns EXCEPT ![parent].children = Append(@, Len(ns) + 1)], Element(tag))

\* elem.set(key, value)
set(ns, elem, key, value) ==
  [ns EXCEPT ![elem].attrib = (key :> value) @@ @]

\* elem.get(key) is not None
has(ns, elem, key) == key \in DOMAIN ns[elem].attrib

\* The path "./tag[@name='<name>']" is parsed by ElementPath: a name that
\* holds a single quote ends the quoted literal early and the predicate is
\* rejected with SyntaxError
InvalidPredicate(name) == \E i \in 1..Len(name) : name[i] = "'"

\* faulty variant of findall: the predicate tests the attribute Name, which
\* no element carries, so nothing is ever found
findall_wrong_attribute(ns, parent, tag, name) ==
  SelectSeq(ns[parent].children,
            LAMBDA c : /\ ns[c].tag = tag
                       /\ has(ns, c, "Name")
                       /\ ns[c].attrib["Name"] = name)

\* parent.findall("./tag[@name='<name>']") for a valid predicate: the
\* children of parent, in document order, with that tag and name attribute
findall(ns, parent, tag, name) ==
  SelectSeq(ns[parent].children,
            LAMBDA c : /\ ns[c].tag = tag
                       /\ has(ns, c, "name")
                       /\ ns[c].attrib["name"] = name)

\* outcome of a method: the tree, the returned element, the raised exception
Return(ns, elem) == [nodes |-> ns, ret |-> elem, exc |-> NoExc]
Raise(ns, e) == [nodes |-> ns, ret |-> 0, exc |-> e]

ROOT == 1

\* faulty variant of __handle_configuation: the on-exist of the row is also
\* written on a configuration that was found
handle_configuation_update(ns, name, on_exist) ==
  IF ~Truthy(name) THEN Raise(ns, "Config")
  ELSE IF InvalidPredicate(name) THEN Raise(ns, SyntaxError)
  ELSE
    LET configurations == findall(ns, ROOT, "configuration", name) IN
    IF Len(configurations) > 0
    THEN Return(IF Truthy(on_exist)
                THEN set(ns, configurations[1], "on-exist", on_exist) ELSE ns,
                configurations[1])
    ELSE
      LET configuration == Len(ns) + 1
          n1 == SubElement(ns, ROOT, "configuration")
          n2 == set(n1, configuration, "name", name)
          n3 == IF Truthy(on_exist)
                THEN set(n2, configuration, "on-exist", on_exist) ELSE n2
      IN Return(n3, configuration)

\* faulty variant of __handle_configuation: an empty name is not rejected
handle_configuation_unnamed(ns, name, on_exist) ==
  IF InvalidPredicate(name) THEN Raise(ns, SyntaxError)
  ELSE
    LET configurations == findall(ns, ROOT, "configuration", name) IN
    IF Len(configurations) > 0 THEN Return(ns, configurations[1])
    ELSE
      LET configuration == Len(ns) + 1
          n1 == SubElement(ns, ROOT, "configuration")
          n2 == set(n1, configuration, "name", name)
          n3 == IF Truthy(on_exist)
                THEN set(n2, configuration, "on-exist", on_exist) ELSE n2
      IN Return(n3, configuration)

handle_configuation(ns, name, on_exist) ==
  IF ~Truthy(name) THEN Raise(ns, "Config")
  ELSE IF InvalidPredicate(name) THEN Raise(ns, SyntaxError)
  ELSE
    LET configurations == findall(ns, ROOT, "configuration", name) IN
    IF Len(configurations) > 0 THEN Return(ns, configurations[1])
    ELSE
      LET configuration == Len(ns) + 1
          n1 == SubElement(ns, ROOT, "configuration")
          n2 == set(n1, configuration, "name", name)
          n3 == IF Truthy(on_exist)
                THEN set(n2, configuration, "on-exist", on_exist) ELSE n2
      IN Return(n3, configuration)

\* faulty variant of __handle_view: the on-exist of the row is handed on to
\* the resolution of the configuration
handle_view_propagate(ns, config_name, name, on_exist) ==
  IF ~Truthy(name) THEN Raise(ns, "View")
  ELSE
    LET c == handle_configuation(ns, config_name, on_exist) IN
    IF c.exc # NoExc THEN c
    ELSE IF InvalidPredicate(name) THEN Raise(c.nodes, SyntaxError)
    ELSE
      LET views == findall(c.nodes, c.ret, "view", name) IN
      IF Len(views) > 0 THEN Return(c.nodes, views[1])
      ELSE
        LET view == Len(c.nodes) + 1
            n1 == SubElement(c.nodes, c.ret, "view")
            n2 == set(n1, view, "name", name)
            n3 == IF Truthy(on_exist)
                  THEN set(n2, view, "on-exist", on_exist) ELSE n2
        IN Return(n3, view)

handle_view(ns, config_name, name, on_exist) ==
  IF ~Truthy(name) THEN Raise(ns, "View")
  ELSE
    LET c == handle_configuation(ns, config_name, EMPTY) IN
    IF c.exc # NoExc THEN c
    ELSE IF InvalidPredicate(name) THEN Raise(c.nodes, SyntaxError)
    ELSE
      LET views == findall(c.nodes, c.ret, "view", name) IN
      IF Len(views) > 0 THEN Return(c.nodes, views[1])
      ELSE
        LET view == Len(c.nodes) + 1
            n1 == SubElement(c.nodes, c.ret, "view")
            n2 == set(n1, view, "name", name)
            n3 == IF Truthy(on_exist)
                  THEN set(n2, view, "on-exist", on_exist) ELSE n2
        IN Return(n3, view)

\* faulty variant of the loop of __handle_zone: deployable and on-exist are
\* written on every zone the loop creates, not only on the last level
RECURSIVE zone_loop_every_level(_, _, _, _, _, _)
zone_loop_every_level(ns, parent, list_zone, index, is_deploy, on_exist) ==
  IF index > Len(list_zone) THEN Return(ns, parent)
  ELSE
    LET p_zone == list_zone[index] IN
    IF InvalidPredicate(p_zone) THEN Raise(ns, SyntaxError)
    ELSE
      LET zones == findall(ns, parent, "zone", p_zone) IN
      IF Len(zones) > 0
      THEN zone_loop_every_level(ns, zones[1], list_zone, index + 1,
                                 is_deploy, on_exist)
      ELSE
        LET zone == Len(ns) + 1
            n1 == SubElement(ns, parent, "zone")
            n2 == set(n1, zone, "name", p_zone)
            n3 == IF is_deploy
                  THEN set(n2, zone, "deployable", lower(str(is_deploy)))
                  ELSE n2
            n4 == IF Truthy(on_exist)
                  THEN set(n3, zone, "on-exist", on_exist)
                  ELSE n3
        IN zone_loop_every_level(n4, zone, list_zone, index + 1,
                                 is_deploy, on_exist)

\* the for loop of __handle_zone, from position index of list_zone (1-based)
RECURSIVE zone_loop(_, _, _, _, _, _)
zone_loop(ns, parent, list_zone, index, is_deploy, on_exist) ==
  IF index > Len(list_zone) THEN Return(ns, parent)
  ELSE
    LET p_zone == list_zone[index] IN
    IF InvalidPredicate(p_zone) THEN Raise(ns, SyntaxError)
    ELSE
      LET zones == findall(ns, parent, "zone", p_zone) IN
      IF Len(zones) > 0
      THEN zone_loop(ns, zones[1], list_zone, index + 1, is_deploy, on_exist)
      ELSE
        LET zone == Len(ns) + 1
            n1 == SubElement(ns, parent, "zone")
            n2 == set(n1, zone, "name", p_zone)
            n3 == IF index = Len(list_zone) /\ is_deploy
                  THEN set(n2, zone, "deployable", lower(str(is_deploy)))
                  ELSE n2
            n4 == IF index = Len(list_zone) /\ Truthy(on_exist)
                  THEN set(n3, zone, "on-exist", on_exist)
                  ELSE n3
        IN zone_loop(n4, zone, list_zone, index + 1, is_deploy, on_exist)

handle_zone(ns, config_name, view_name, full_zone_name, is_deploy, on_exist) ==
  LET v == handle_view(ns, config_name, view_name, EMPTY) IN
  IF v.exc # NoExc THEN v
  ELSE zone_loop(v.nodes, v.ret, reverse(split(full_zone_name)), 1,
                 is_deploy, on_exist)

\* faulty variant of __handle_record_host: a host of that name already under
\* the zone is returned instead of a new one being added
handle_record_host_dedupe(ns, zone, name, address, ttl, on_exist) ==
  LET host_records == findall(ns, zone, "host", name) IN
  IF Len(host_records) > 0 THEN Return(ns, host_records[1])
  ELSE IF ~Truthy(address) THEN Raise(ns, "HostAddress")
  ELSE
    LET host_record == Len(ns) + 1
        n1 == SubElement(ns, zone, "host")
        n2 == set(n1, host_record, "name", name)
        n3 == set(n2, host_record, "address", address)
        n4 == IF Truthy(ttl) THEN set(n3, host_record, "ttl", ttl) ELSE n3
        n5 == IF Truthy(on_exist)
              THEN set(n4, host_record, "on-exist", on_exist) ELSE n4
    IN Return(n5, host_record)

\* faulty variant of __handle_record_host: the address is not checked
handle_record_host_unchecked(ns, zone, name, address, ttl, on_exist) ==
  LET host_record == Len(ns) + 1
      n1 == SubElement(ns, zone, "host")
      n2 == set(n1, host_record, "name", name)
      n3 == set(n2, host_record, "address", address)
      n4 == IF Truthy(ttl) THEN set(n3, host_record, "ttl", ttl) ELSE n3
      n5 == IF Truthy(on_exist)
            THEN set(n4, host_record, "on-exist", on_exist) ELSE n4
  IN Return(n5, host_record)

handle_record_host(ns, zone, name, address, ttl, on_exist) ==
  IF ~Truthy(address) THEN Raise(ns, "HostAddress")
  ELSE
    LET host_record == Len(ns) + 1
        n1 == SubElement(ns, zone, "host")
        n2 == set(n1, host_record, "name", name)
        n3 == set(n2, host_record, "address", address)
        n4 == IF Truthy(ttl) THEN set(n3, host_record, "ttl", ttl) ELSE n3
        n5 == IF Truthy(on_exist)
              THEN set(n4, host_record, "on-exist", on_exist) ELSE n4
    IN Return(n5, host_record)

\* faulty variant of __handle_record_srv: priority, weight, port and host
\* are written only when they are non-empty
handle_record_srv_guarded(ns, zone, name, priority, weight, port, host, ttl, on_exist) ==
  LET srv_record == Len(ns) + 1
      n1 == SubElement(ns, zone, "srv")
      n2 == set(n1, srv_record, "name", name)
      n3 == IF Truthy(priority)
            THEN set(n2, srv_record, "priority", priority) ELSE n2
      n4 == IF Truthy(weight) THEN set(n3, srv_record, "weight", weight) ELSE n3
      n5 == IF Truthy(port) THEN set(n4, srv_record, "port", port) ELSE n4
      n6 == IF Truthy(host) THEN set(n5, srv_record, "host", host) ELSE n5
      n7 == IF Truthy(ttl) THEN set(n6, srv_record, "ttl", ttl) ELSE n6
      n8 == IF Truthy(on_exist)
            THEN set(n7, srv_record, "on-exist", on_exist) ELSE n7
  IN Return(n8, srv_record)

handle_record_srv(ns, zone, name, priority, weight, port, host, ttl, on_exist) ==
  LET srv_record == Len(ns) + 1
      n1 == SubElement(ns, zone, "srv")
      n2 == set(n1, srv_record, "name", name)
      n3 == set(n2, srv_record, "priority", priority)
      n4 == set(n3, srv_record, "weight", weight)
      n5 == set(n4, srv_record, "port", port)
      n6 == set(n5, srv_record, "host", host)
      n7 == IF Truthy(ttl) THEN set(n6, srv_record, "ttl", ttl) ELSE n6
      n8 == IF Truthy(on_exist)
            THEN set(n7, srv_record, "on-exist", on_exist) ELSE n7
  IN Return(n8, srv_record)

\* faulty variant of the guarded set: the attribute is written whatever the
\* value
set_always(ns, elem, key, value) == set(ns, elem, key, value)

\* naptr_record.set(key, value) under "if value:"
set_if(ns, elem, key, value) ==
  IF Truthy(value) THEN set(ns, elem, key, value) ELSE ns

handle_record_naptr(ns, zone, name, order, preference, service, replacement, flags, ttl, on_exist, regexp) ==
  LET naptr_record == Len(ns) + 1
      n1 == SubElement(ns, zone, "naptr")
      n2 == set(n1, naptr_record, "name", name)
      n3 == set_if(n2, naptr_record, "order", order)
      n4 == set_if(n3, naptr_record, "preference", preference)
      n5 == set_if(n4, naptr_record, "service", service)
      n6 == set_if(n5, naptr_record, "replacement", replacement)
      n7 == set_if(n6, naptr_record, "flags", flags)
      n8 == set_if(n7, naptr_record, "regexp", regexp)
      n9 == set_if(n8, naptr_record, "ttl", ttl)
      n10 == set_if(n9, naptr_record, "on-exist", on_exist)
  IN Return(n10, naptr_record)

handle_record_generic(ns, zone, name, type, rdata, ttl, on_exist) ==
  IF ~Truthy(rdata) THEN Raise(ns, "Rdata")
  ELSE
    LET generic_record == Len(ns) + 1
        n1 == SubElement(ns, zone, "generic-record")
        n2 == set(n1, generic_record, "name", name)
        n3 == set(n2, generic_record, "type", upper(type))
        n4 == set(n3, generic_record, "rdata", rdata)
        n5 == IF Truthy(ttl) THEN set(n4, generic_record, "ttl", ttl) ELSE n4
        n6 == IF Truthy(on_exist)
              THEN set(n5, generic_record, "on-exist", on_exist) ELSE n5
    IN Return(n6, generic_record)

\* faulty variant of __handle_record: RecordType is checked before ParentZone
handle_record_type_first(ns, r) ==
  LET config_name == r["Config"]
      view_name == r["View"]
      name == r["Name"]
      parent_zone == r["ParentZone"]
      record_type == r["RecordType"]
  IN
  IF ~Truthy(record_type) THEN Raise(ns, "RecordType")
  ELSE IF ~Truthy(parent_zone) THEN Raise(ns, "ParentZone")
  ELSE
    LET z == handle_zone(ns, config_name, view_name, parent_zone, FALSE, EMPTY)
        rt == lower(record_type)
    IN
    IF z.exc # NoExc THEN z
    ELSE IF rt = RT_HOST
      THEN handle_record_host(z.nodes, z.ret, name, r["HostAddress"],
                              r["TTL"], r["on-exist"])
    ELSE IF rt = RT_SRV
      THEN handle_record_srv(z.nodes, z.ret, name, r["SRV-Priority"],
                             r["SRV-Weight"], r["SRV-Port"], r["SRV-Host"],
                             r["TTL"], r["on-exist"])
    ELSE IF rt = RT_NAPTR
      THEN handle_record_naptr(z.nodes, z.ret, name, r["naptr-order"],
                               r["naptr-Preference"], r["naptr-Service"],
                               r["naptr-Replacement"], r["naptr-Flags"],
                               r["TTL"], r["on-exist"], r["naptr-RegExp"])
    ELSE IF rt \in RT_GENERICS
      THEN handle_record_generic(z.nodes, z.ret, name, rt, r["Rdata"],
                                 r["TTL"], r["on-exist"])
    ELSE Return(z.nodes, 0)

handle_record(ns, r) ==
  LET config_name == r["Config"]
      view_name == r["View"]
      name == r["Name"]
      parent_zone == r["ParentZone"]
      record_type == r["RecordType"]
  IN
  IF ~Truthy(parent_zone) THEN Raise(ns, "ParentZone")
  ELSE IF ~Truthy(record_type) THEN Raise(ns, "RecordType")
  ELSE
    LET z == handle_zone(ns, config_name, view_name, parent_zone, FALSE, EMPTY)
        rt == lower(record_type)
    IN
    IF z.exc # NoExc THEN z
    ELSE IF rt = RT_HOST
      THEN handle_record_host(z.nodes, z.ret, name, r["HostAddress"],
                              r["TTL"], r["on-exist"])
    ELSE IF rt = RT_SRV
      THEN handle_record_srv(z.nodes, z.ret, name, r["SRV-Priority"],
                             r["SRV-Weight"], r["SRV-Port"], r["SRV-Host"],
                             r["TTL"], r["on-exist"])
    ELSE IF rt = RT_NAPTR
      THEN handle_record_naptr(z.nodes, z.ret, name, r["naptr-order"],
                               r["naptr-Preference"], r["naptr-Service"],
                               r["naptr-Replacement"], r["naptr-Flags"],
                               r["TTL"], r["on-exist"], r["naptr-RegExp"])
    ELSE IF rt \in RT_GENERICS
      THEN handle_record_generic(z.nodes, z.ret, name, rt, r["Rdata"],
                                 r["TTL"], r["on-exist"])
    ELSE Return(z.nodes, 0)

\* faulty variant of the row.values() test: an empty OpType alone raises
HasValue_skipped(r) == TRUE

\* [value for value in list(row.values()) if value] is non-empty
HasValue(r) == \E h \in DOMAIN r : Truthy(r[h])

\* bool(row.get(Header.ZONE_DEPLOY_FLAG))
bool(s) == Truthy(s)

\* faulty variant of extract: OpType is lower-cased before the dispatch, as
\* RecordType is
extract_lowered(ns, r) ==
  LET optype == lower(r["OpType"]) IN
  IF ~Truthy(optype) /\ HasValue(r) THEN Raise(ns, "OpType")
  ELSE IF optype = OP_REMARK THEN Return(ns, 0)
  ELSE IF optype = OP_CONFIG
    THEN handle_configuation(ns, r["Config"], r["on-exist"])
  ELSE IF optype = OP_VIEW
    THEN handle_view(ns, r["Config"], r["View"], r["on-exist"])
  ELSE IF optype = OP_ZONE
    THEN IF ~Truthy(r["Name"]) THEN Raise(ns, "Name")
         ELSE handle_zone(ns, r["Config"], r["View"],
                          r["Name"] \o <<".">> \o r["ParentZone"],
                          bool(r["ZoneDeployFlag"]), r["on-exist"])
  ELSE IF optype = OP_RECORD THEN handle_record(ns, r)
  ELSE Return(ns, 0)

extract(ns, r) ==
  LET optype == r["OpType"] IN
  IF ~Truthy(optype) /\ HasValue(r) THEN Raise(ns, "OpType")
  ELSE IF optype = OP_REMARK THEN Return(ns, 0)
  ELSE IF optype = OP_CONFIG
    THEN handle_configuation(ns, r["Config"], r["on-exist"])
  ELSE IF optype = OP_VIEW
    THEN handle_view(ns, r["Config"], r["View"], r["on-exist"])
  ELSE IF optype = OP_ZONE
    THEN IF ~Truthy(r["Name"]) THEN Raise(ns, "Name")
         ELSE handle_zone(ns, r["Config"], r["View"],
                          r["Name"] \o <<".">> \o r["ParentZone"],
                          bool(r["ZoneDeployFlag"]), r["on-exist"])
  ELSE IF optype = OP_RECORD THEN handle_record(ns, r)
  ELSE Return(ns, 0)

(* ------------------------------ the rows ------------------------------ *)

\* a csv row: every header of HeaderAll mapped to a string; ov gives the
\* non-empty fields
Row(ov) == [h \in Headers |-> IF h \in DOMAIN ov THEN ov[h] ELSE EMPTY]

EmptyRow == Row(<<>>)

\* placeholder for "no row read yet"
NoRow == <<>>

ConfigNames == {<<"c">>, <<"d">>}
Quoted == <<"'">>
OnExists == {EMPTY, <<"m">>}

\* rows with an empty OpType: the blank row and every row with exactly one
\* other field filled
RowsNoOp ==
  {EmptyRow} \cup {Row(h :> <<"x">>) : h \in Headers \ {"OpType"}}

RecordLike ==
  [Config |-> <<"c">>, View |-> <<"v">>, Name |-> <<"w">>,
   ParentZone |-> <<"b">>, RecordType |-> RT_HOST, HostAddress |-> <<"1">>]

\* comment rows and rows whose OpType is no operation of the program
RowsIgnored ==
  {Row(("OpType" :> op) @@ f) :
     op \in {OP_REMARK, <<"C","o","n","f","i","g">>, <<"z","o","n","e","s">>},
     f \in {<<>>, RecordLike}}

RowsConfig ==
  {Row([OpType |-> OP_CONFIG, Config |-> c] @@ ("on-exist" :> x)) :
     c \in ConfigNames \cup {EMPTY, Quoted}, x \in OnExists}

RowsView ==
  {Row([OpType |-> OP_VIEW, Config |-> cv[1], View |-> cv[2]]
       @@ ("on-exist" :> x)) :
     cv \in {<<(<<"c">>), (<<"v">>)>>, <<EMPTY, (<<"v">>)>>,
             <<(<<"c">>), EMPTY>>, <<EMPTY, EMPTY>>, <<(<<"c">>), Quoted>>},
     x \in OnExists}

\* (ZoneDeployFlag, on-exist) of the zone rows
ZoneFlags == {<<EMPTY, EMPTY>>, <<(<<"0">>), EMPTY>>, <<EMPTY, (<<"m">>)>>}

RowsZone ==
  {Row([OpType |-> OP_ZONE, Config |-> <<"c">>, View |-> <<"v">>,
        Name |-> n, ParentZone |-> pz, ZoneDeployFlag |-> fx[1]]
       @@ ("on-exist" :> fx[2])) :
     n \in {<<"a">>},
     pz \in {EMPTY, <<"b">>, <<"a", ".", "b">>},
     fx \in ZoneFlags}
  \cup
  {Row([OpType |-> OP_ZONE, Config |-> <<"c">>, View |-> <<"v">>,
        Name |-> <<"b">>, ParentZone |-> pz]) :
     pz \in {<<"b">>, <<"a", ".", "b">>}}
  \cup
  {Row([OpType |-> OP_ZONE, Config |-> t[1], View |-> t[2], Name |-> t[3],
        ParentZone |-> <<"b">>, ZoneDeployFlag |-> <<"1">>]) :
     t \in {<<(<<"c">>), (<<"v">>), EMPTY>>, <<(<<"c">>), EMPTY, (<<"a">>)>>,
            <<EMPTY, (<<"v">>), (<<"a">>)>>, <<EMPTY, EMPTY, EMPTY>>,
            <<(<<"c">>), (<<"v">>), Quoted>>}}

\* host rows with every combination of empty required fields
RowsHost ==
  {Row([OpType |-> OP_RECORD, Config |-> c, View |-> v, Name |-> <<"w">>,
        ParentZone |-> pz, RecordType |-> rt, HostAddress |-> a]) :
     c \in {EMPTY, <<"c">>}, v \in {EMPTY, <<"v">>}, pz \in {EMPTY, <<"b">>},
     rt \in {EMPTY, RT_HOST}, a \in {EMPTY, <<"1">>}}
  \cup
  {Row([OpType |-> OP_RECORD, Config |-> <<"c">>, View |-> <<"v">>,
        Name |-> n, ParentZone |-> <<"a", ".", "b">>,
        RecordType |-> <<"H","o","s","t">>, HostAddress |-> <<"1">>,
        TTL |-> tx[1]] @@ ("on-exist" :> tx[2])) :
     n \in {EMPTY, <<"w">>},
     tx \in {<<EMPTY, EMPTY>>, <<(<<"5">>), (<<"m">>)>>}}

RowsGeneric ==
  {Row([OpType |-> OP_RECORD, Config |-> <<"c">>, View |-> <<"v">>,
        Name |-> <<"w">>, ParentZone |-> <<"b">>, RecordType |-> rt,
        Rdata |-> d]) :
     rt \in {<<"a">>, <<"N","s">>, <<"A","A","A","A">>},
     d \in {EMPTY, <<"1">>}}

SrvFilled ==
  ("SRV-Priority" :> <<"1">>) @@ ("SRV-Weight" :> <<"2">>)
  @@ ("SRV-Port" :> <<"3">>) @@ ("SRV-Host" :> <<"h">>)
  @@ ("TTL" :> <<"5">>) @@ ("on-exist" :> <<"m">>)

NaptrFilled ==
  ("naptr-order" :> <<"1">>) @@ ("naptr-Preference" :> <<"2">>)
  @@ ("naptr-Service" :> <<"s">>) @@ ("naptr-RegExp" :> <<"e">>)
  @@ ("naptr-Replacement" :> <<"r">>) @@ ("naptr-Flags" :> <<"f">>)
  @@ ("TTL" :> <<"5">>) @@ ("on-exist" :> <<"m">>)

RowsSrvNaptr ==
  {Row([OpType |-> OP_RECORD, Config |-> <<"c">>, View |-> <<"v">>,
        Name |-> <<"w">>, ParentZone |-> <<"b">>, RecordType |-> t[1]]
       @@ t[2]) :
     t \in {<<RT_SRV, (<<>>)>>, <<(<<"S","R","V">>), SrvFilled>>,
            <<RT_NAPTR, (<<>>)>>, <<RT_NAPTR, NaptrFilled>>,
            <<RT_NAPTR, ("naptr-order" :> <<"1">>)>>}}

\* srv rows with nothing but the RecordType filled in: one with Config, View
\* and ParentZone, one without View
RowsSrvBare ==
  {Row([OpType |-> OP_RECORD, Config |-> <<"c">>, View |-> v,
        ParentZone |-> <<"b">>, RecordType |-> <<"S","r","v">>]) :
     v \in {EMPTY, <<"v">>}}

\* record rows of a type the program does not know, and a record row whose
\* ParentZone holds a quote
RowsOtherRecord ==
  {Row([OpType |-> OP_RECORD, Config |-> <<"c">>, View |-> v,
        Name |-> <<"w">>, ParentZone |-> pz, RecordType |-> <<"m","x">>,
        HostAddress |-> <<"1">>, Rdata |-> <<"1">>]) :
     v \in {EMPTY, <<"v">>}, pz \in {<<"b">>, <<"a", ".", "b">>}}
  \cup
  {Row([OpType |-> OP_RECORD, Config |-> <<"c">>, View |-> <<"v">>,
        Name |-> <<"w">>, ParentZone |-> <<"'", ".", "b">>,
        RecordType |-> RT_HOST])}

Rows ==
  RowsNoOp \cup RowsIgnored \cup RowsConfig \cup RowsView \cup RowsZone
  \cup RowsHost \cup RowsGeneric \cup RowsSrvNaptr \cup RowsSrvBare
  \cup RowsOtherRecord

(* --------------------------- the conversion --------------------------- *)

\* rows consumed so far by the loop of execute
RowsRead == IF line_count = 0 THEN 0 ELSE line_count - 1

\* str(HeaderMissingException(header))
HeaderMissing(header) == "Header '" \o header \o "' is missing."

\* the loop of validate_header from position i of Header.all(): the
\* exception raised for the first expected header that is not among the
\* actual ones
RECURSIVE validate_from(_, _)
validate_from(actual_headers, i) ==
  IF i > Len(HeaderAll) THEN NoExc
  ELSE IF HeaderAll[i] \notin actual_headers THEN HeaderMissing(HeaderAll[i])
  ELSE validate_from(actual_headers, i + 1)

\* faulty variant of validate_header: only the first expected header is
\* looked for
validate_header_first_only(actual_headers) ==
  IF HeaderAll[1] \notin actual_headers THEN HeaderMissing(HeaderAll[1])
  ELSE NoExc

validate_header(actual_headers) == validate_from(actual_headers, 1)

\* a csv file whose rows are not fixed: the reader may yield any row of Rows
OpenFile == [open |-> TRUE, rows |-> <<>>]

\* a csv file with the rows f
File(f) == [open |-> FALSE, rows |-> f]

\* declared field names of the input: all of them, all but one, all but
\* two, few, none
FieldSets ==
  {Headers} \cup {Headers \ {h} : h \in Headers}
  \cup {Headers \ {"View", "TTL"}, Headers \ {"Rdata", "Config"},
        {"OpType", "Name"}, {}}

\* CsvToXml.__init__ and the start of execute, up to line_count = 0
InitCommon ==
  /\ nodes = <<Element("data")>>
  /\ row = NoRow
  /\ err = NoExc
  /\ line_count = 0
  /\ pc = "validate"

Init ==
  /\ InitCommon
  /\ fieldnames \in FieldSets
  /\ csv_file = OpenFile

\* validate_header(csv_reader.fieldnames): a HeaderMissingException leaves
\* execute and is logged by the caller; nothing is written
ValidateHeader ==
  /\ pc = "validate"
  /\ err' = validate_header(fieldnames)
  /\ pc' = IF err' = NoExc THEN "rows" ELSE "failed"
  /\ UNCHANGED <<nodes, row, line_count, fieldnames, csv_file>>

\* the rows the reader can yield next
NextRows ==
  IF csv_file.open THEN (IF RowsRead < MaxRows THEN Rows ELSE {})
  ELSE IF RowsRead < Len(csv_file.rows) THEN {csv_file.rows[RowsRead + 1]}
  ELSE {}

\* faulty variant of the loop of execute: any exception of extract leaves
\* the loop
Extract_abort(r) ==
  /\ pc = "rows"
  /\ LET res == extract(nodes, r)
         counted == IF line_count = 0 THEN 1 ELSE line_count
     IN
       /\ nodes' = res.nodes
       /\ err' = res.exc
       /\ pc' = IF err' # NoExc THEN "failed" ELSE "rows"
       /\ line_count' = IF err' # NoExc THEN counted ELSE counted + 1
  /\ row' = r
  /\ UNCHANGED <<fieldnames, csv_file>>

\* one iteration of the loop of execute: the reader yields r, extract is
\* applied, a FieldEmptyException is caught and logged and line_count is
\* advanced; any other exception leaves the loop and execute
Extract(r) ==
  /\ pc = "rows"
  /\ LET res == extract(nodes, r)
         counted == IF line_count = 0 THEN 1 ELSE line_count
     IN
       /\ nodes' = res.nodes
       /\ err' = res.exc
       /\ pc' = IF err' = SyntaxError THEN "failed" ELSE "rows"
       /\ line_count' = IF err' = SyntaxError THEN counted ELSE counted + 1
  /\ row' = r
  /\ UNCHANGED <<fieldnames, csv_file>>

\* the reader is exhausted: the loop ends and write_to_file serializes the
\* tree
WriteToFile ==
  /\ pc = "rows"
  /\ csv_file.open \/ RowsRead = Len(csv_file.rows)
  /\ pc' = "written"
  /\ UNCHANGED <<nodes, row, err, line_count, fieldnames, csv_file>>

Next ==
  \/ ValidateHeader
  \/ \E r \in NextRows : Extract(r)
  \/ WriteToFile

Spec == Init /\ [][Next]_vars

(* ------------------------- a file of given rows ----------------------- *)

Ex1 == <<"E","x","1">>
V1 == <<"V","1">>
www == <<"w","w","w">>
example_com == <<"e","x","a","m","p","l","e",".","c","o","m">>
sub_example_com == <<"s","u","b",".">> \o example_com
address_10_0_0_1 == <<"1","0",".","0",".","0",".","1">>

\* the rows of the worked example: a configuration, a view, a zone with a
\* deploy flag and a host in that zone
Scenario ==
  << Row([OpType |-> OP_CONFIG, Config |-> Ex1]),
     Row([OpType |-> OP_VIEW, Config |-> Ex1, View |-> V1]),
     Row([OpType |-> OP_ZONE, Config |-> Ex1, View |-> V1,
          Name |-> <<"s","u","b">>, ParentZone |-> example_com,
          ZoneDeployFlag |-> <<"1">>]),
     Row([OpType |-> OP_RECORD, Config |-> Ex1, View |-> V1,
          RecordType |-> RT_HOST, Name |-> www,
          ParentZone |-> sub_example_com,
          HostAddress |-> address_10_0_0_1]) >>

\* the files of at most MaxFileLen rows taken from the set rows
Files(rows) == UNION {[1..n -> rows] : n \in 0..MaxFileLen}

\* rows for a run of the loop of execute: two that apply, two that raise a
\* FieldEmptyException (an empty Config, an empty View) and one that raises
\* a SyntaxError (a quote in the name)
LoopRows ==
  {Row([OpType |-> OP_CONFIG, Config |-> Ex1]),
   Row([OpType |-> OP_VIEW, Config |-> Ex1, View |-> V1]),
   Row([OpType |-> OP_CONFIG] @@ ("on-exist" :> <<"m">>)),
   Row([OpType |-> OP_VIEW, Config |-> Ex1]),
   Row([OpType |-> OP_CONFIG, Config |-> Quoted])}

\* a run over a file whose rows are fixed, with a complete header or with
\* one that lacks TTL
InitFile ==
  /\ InitCommon
  /\ fieldnames \in {Headers, Headers \ {"TTL"}}
  /\ csv_file \in {File(f) : f \in Files(LoopRows)}

\* execute runs to its end: a step that can be taken is taken
FileSpec == InitFile /\ [][Next]_vars /\ WF_vars(Next)

\* the rows of the worked example and a host row without HostAddress
ScenarioRows ==
  {Scenario[i] : i \in 1..Len(Scenario)}
  \cup {Row([OpType |-> OP_RECORD, Config |-> Ex1, View |-> V1,
             RecordType |-> RT_HOST, Name |-> www,
             ParentZone |-> sub_example_com])}

\* a run over a file made of the rows of the worked example, in any order
InitScenario ==
  /\ InitCommon
  /\ fieldnames = Headers
  /\ csv_file \in {File(f) : f \in Files(ScenarioRows)}

ScenarioSpec == InitScenario /\ [][Next]_vars

(* ---------------------- navigation in a tree ------------------------- *)

\* positions among the children of p of the elements with that tag and name
PosNamed(ns, p, tag, nm) ==
  {i \in 1..Len(ns[p].children) :
     LET c == ns[p].children[i] IN
       /\ ns[c].tag = tag
       /\ "name" \in DOMAIN ns[c].attrib
       /\ ns[c].attrib["name"] = nm}

\* the first child of p with that tag and name, 0 when there is none
FirstNamed(ns, p, tag, nm) ==
  LET ps == PosNamed(ns, p, tag, nm) IN
  IF p = 0 \/ ps = {} THEN 0
  ELSE ns[p].children[CHOOSE i \in ps : \A j \in ps : i <= j]

\* the view element of configuration c, 0 when there is none
ViewOf(ns, c, v) ==
  LET cn == FirstNamed(ns, ROOT, "configuration", c) IN
  IF cn = 0 THEN 0 ELSE FirstNamed(ns, cn, "view", v)

\* the parent of element e, 0 for the root
ParentOf(ns, e) ==
  IF \E q \in 1..Len(ns) : \E i \in 1..Len(ns[q].children) : ns[q].children[i] = e
  THEN CHOOSE q \in 1..Len(ns) : \E i \in 1..Len(ns[q].children) : ns[q].children[i] = e
  ELSE 0

\* labels of a dotted name from the most significant (rightmost) one
Labels(full) == LET l == split(full) IN [i \in 1..Len(l) |-> l[Len(l) + 1 - i]]

\* the zone reached from element start by following the first d labels of
\* ls through first-matching zone children; 0 when a level is missing
RECURSIVE ZoneAt(_, _, _, _)
ZoneAt(ns, start, ls, d) ==
  IF d = 0 THEN start
  ELSE LET up == ZoneAt(ns, start, ls, d - 1) IN
       IF up = 0 THEN 0 ELSE FirstNamed(ns, up, "zone", ls[d])

IsRow == RowsRead > 0
\* the step is an iteration of the loop of execute
NextIsRow == pc = "rows" /\ (line_count' # line_count \/ pc' = "failed")

OpKnown == {<<"c","o","n","f","i","g">>, <<"v","i","e","w">>,
            <<"z","o","n","e">>, <<"r","e","c","o","r","d">>}
IsConfigRow(r) == r["OpType"] = <<"c","o","n","f","i","g">>
IsViewRow(r) == r["OpType"] = <<"v","i","e","w">>
IsZoneRow(r) == r["OpType"] = <<"z","o","n","e">>
IsRecordRow(r) == r["OpType"] = <<"r","e","c","o","r","d">>

\* the dotted zone name a zone row or a record row resolves
FullZoneName(r) ==
  IF IsZoneRow(r) THEN r["Name"] \o <<".">> \o r["ParentZone"]
  ELSE r["ParentZone"]

FieldErrors ==
  {"OpType", "Config", "View", "Name", "ParentZone", "RecordType",
   "HostAddress", "Rdata"}

(* ------------------------------- C1 ----------------------------------- *)

Resolved(ns, r) ==
  IF IsConfigRow(r)
    THEN Truthy(r["Config"]) /\ FirstNamed(ns, ROOT, "configuration", r["Config"]) # 0
  ELSE IF IsViewRow(r)
    THEN Truthy(r["View"]) /\ ViewOf(ns, r["Config"], r["View"]) # 0
  ELSE IF IsZoneRow(r)
    THEN /\ Truthy(r["Name"])
         /\ LET v == ViewOf(ns, r["Config"], r["View"])
                ls == Labels(FullZoneName(r))
            IN v # 0 /\ ZoneAt(ns, v, ls, Len(ls)) # 0
  ELSE FALSE

\* one config, view or zone row for each path the rows name
PathRows ==
  {r \in RowsConfig \cup RowsView \cup RowsZone :
     r["on-exist"] = EMPTY /\ r["ZoneDeployFlag"] = EMPTY}

\* C2: resolution is idempotent.  A config, view or zone row that succeeds
\* leaves the path it names in the tree; the path stays in the tree for the
\* rest of the run; and a config, view or zone row naming a path that is in
\* the tree raises nothing and leaves the whole tree unchanged, whatever its
\* on-exist and ZoneDeployFlag.
C2_IdempotentStep ==
  NextIsRow =>
    /\ (/\ IsConfigRow(row') \/ IsViewRow(row') \/ IsZoneRow(row')
        /\ err' = NoExc)
         => Resolved(nodes', row')
    /\ \A r \in PathRows : Resolved(nodes, r) => Resolved(nodes', r)
    /\ Resolved(nodes, row') => (nodes' = nodes /\ err' = NoExc)

ZoneResolved(r, e) ==
  \/ IsZoneRow(r) /\ e = NoExc
  \/ IsRecordRow(r) /\ e \in {NoExc, "HostAddress", "Rdata"}

RecordTags == {"host", "srv", "naptr", "generic-record"}

\* C3: when a zone row, or the ParentZone of a record row, has been resolved
\* and its dotted name has the labels l1.l2...lN, the view holds the chain
\* zone[lN] > zone[lN-1] > ... > zone[l1]; a level that was in the tree
\* before the row is the same element as before, a level that was not is an
\* element the row created, the row created no other zone, and the element
\* resolved (the parent of the record a record row adds) is the zone at
\* depth N.
C3_ChainStep ==
  (NextIsRow /\ ZoneResolved(row', err')) =>
    LET r == row'
        l == split(FullZoneName(r))
        N == Len(l)
        ls == [d \in 1..N |-> l[N + 1 - d]]
        v == ViewOf(nodes', r["Config"], r["View"])
        v0 == ViewOf(nodes, r["Config"], r["View"])
        was(d) == IF v0 = 0 THEN 0 ELSE ZoneAt(nodes, v0, ls, d)
        now(d) == ZoneAt(nodes', v, ls, d)
        last == Len(nodes')
    IN /\ v # 0
       /\ \A d \in 1..N :
            /\ now(d) # 0
            /\ nodes'[now(d)].tag = "zone"
            /\ nodes'[now(d)].attrib["name"] = ls[d]
            /\ IF was(d) # 0 THEN now(d) = was(d) ELSE now(d) > Len(nodes)
       /\ Cardinality({i \in (Len(nodes) + 1)..last : nodes'[i].tag = "zone"})
            = Cardinality({d \in 1..N : was(d) = 0})
       /\ handle_zone(nodes, r["Config"], r["View"], FullZoneName(r),
                      FALSE, EMPTY).ret = now(N)
       /\ (last > Len(nodes) /\ nodes'[last].tag \in RecordTags)
            => LET ch == nodes'[now(N)].children IN
               Len(ch) > 0 /\ ch[Len(ch)] = last

Flagged(ns, e) == {"deployable", "on-exist"} \cap DOMAIN ns[e].attrib # {}

\* C4 as stated: after a zone row with N labels, none of the N-1 outer
\* zones of its chain carries deployable or on-exist.
C4_OuterBareStep ==
  (NextIsRow /\ IsZoneRow(row') /\ err' = NoExc) =>
    LET ls == Labels(FullZoneName(row'))
        v == ViewOf(nodes', row'["Config"], row'["View"])
    IN \A d \in 1..(Len(ls) - 1) : ~Flagged(nodes', ZoneAt(nodes', v, ls, d))

C4_OuterBare == [][C4_OuterBareStep]_vars

\* C4 amended: a zone row with N labels puts deployable and on-exist on no
\* zone but the innermost one of its chain, and there only when it created
\* it: an outer zone the row created carries name alone, a zone of the
\* chain that was in the tree before keeps exactly the attributes it had,
\* and an innermost zone the row created carries name, deployable = "true"
\* exactly when ZoneDeployFlag is non-empty and the on-exist of the row
\* exactly when that is non-empty.
C4_OnlyInnermostStep ==
  (NextIsRow /\ IsZoneRow(row') /\ err' = NoExc) =>
    LET r == row'
        ls == Labels(FullZoneName(r))
        N == Len(ls)
        v == ViewOf(nodes', r["Config"], r["View"])
        z(d) == ZoneAt(nodes', v, ls, d)
        created(d) == z(d) > Len(nodes)
        want == [name |-> ls[N]]
                @@ (IF Truthy(r["ZoneDeployFlag"])
                    THEN "deployable" :> <<"t","r","u","e">> ELSE <<>>)
                @@ (IF Truthy(r["on-exist"])
                    THEN "on-exist" :> r["on-exist"] ELSE <<>>)
    IN /\ \A d \in 1..N :
            ~created(d) => nodes'[z(d)].attrib = nodes[z(d)].attrib
       /\ \A d \in 1..(N - 1) :
            created(d) => nodes'[z(d)].attrib = [name |-> ls[d]]
       /\ created(N) => nodes'[z(N)].attrib = want

C4_OnlyInnermost == [][C4_OnlyInnermostStep]_vars

\* a zone row was applied below a zone that an earlier zone row had made
\* deployable: an outer zone of its chain carries deployable
C4_Witness ==
  /\ IsRow /\ IsZoneRow(row) /\ err = NoExc
  /\ LET ls == Labels(FullZoneName(row))
         v == ViewOf(nodes, row["Config"], row["View"])
     IN /\ Len(ls) = 3
        /\ "deployable" \in DOMAIN nodes[ZoneAt(nodes, v, ls, 2)].attrib
        /\ DOMAIN nodes[ZoneAt(nodes, v, ls, 3)].attrib = {"name"}

(* ------------------------------- C5 ----------------------------------- *)

\* C5: a row is applied all-or-nothing: when extract fails with an
\* EmptyFieldError the tree after the row is the tree before it.
C5_AllOrNothingStep ==
  (NextIsRow /\ err' \in FieldErrors) => nodes' = nodes

C5_AllOrNothing == [][C5_AllOrNothingStep]_vars

(* ------------------------------- C6 ----------------------------------- *)

RecordTypesKnown ==
  {<<"h","o","s","t">>, <<"s","r","v">>, <<"n","a","p","t","r">>,
   <<"n","s">>, <<"a">>, <<"a","a","a","a">>}

\* C6: a record row with a non-empty ParentZone and a non-empty RecordType
\* that is, in any case, none of host, srv, naptr, ns, a, aaaa raises no
\* error and leaves the tree unchanged.
C6_UnknownTypeIgnoredStep ==
  (/\ NextIsRow /\ IsRecordRow(row')
   /\ Truthy(row'["ParentZone"]) /\ Truthy(row'["RecordType"])
   /\ lower(row'["RecordType"]) \notin RecordTypesKnown)
    => (err' = NoExc /\ nodes' = nodes)

C6_UnknownTypeIgnored == [][C6_UnknownTypeIgnoredStep]_vars

(* ------------------------------- C7 ----------------------------------- *)

\* C7: nodes are permanent and attributes write-once: over every row each
\* element of the tree keeps its tag and exactly the attributes it had, and
\* the children it had stay its first children in the same order, so every
\* element stays under its parent at its position.
C7_PermanentStep ==
  /\ Len(nodes') >= Len(nodes)
  /\ \A e \in 1..Len(nodes) :
       /\ nodes'[e].tag = nodes[e].tag
       /\ nodes'[e].attrib = nodes[e].attrib
       /\ Len(nodes'[e].children) >= Len(nodes[e].children)
       /\ SubSeq(nodes'[e].children, 1, Len(nodes[e].children))
            = nodes[e].children

C7_Permanent == [][C7_PermanentStep]_vars

\* a zone row with a ZoneDeployFlag was applied to a tree that held its
\* innermost zone already and that has elements created after that zone:
\* the zone is still not deployable
C7_Witness ==
  /\ IsRow /\ IsZoneRow(row) /\ err = NoExc
  /\ Truthy(row["ZoneDeployFlag"])
  /\ LET ls == Labels(FullZoneName(row))
         v == ViewOf(nodes, row["Config"], row["View"])
         z == ZoneAt(nodes, v, ls, Len(ls))
     IN /\ z # 0
        /\ "deployable" \notin DOMAIN nodes[z].attrib
        /\ z < Len(nodes)

(* ------------------------------- C8 ----------------------------------- *)

\* C8: a row with an empty OpType leaves the tree unchanged; it raises
\* nothing when every field of the row is empty and EmptyFieldError(OpType)
\* when some field is not.
C8_EmptyOpTypeStep ==
  (NextIsRow /\ row'["OpType"] = EMPTY) =>
    /\ nodes' = nodes
    /\ err' = IF \A h \in Headers : row'[h] = EMPTY THEN NoExc ELSE "OpType"

C8_EmptyOpType == [][C8_EmptyOpTypeStep]_vars

\* a row with only a TTL was rejected after a row that built a tree
C8_Witness ==
  /\ IsRow /\ row["OpType"] = EMPTY /\ row["TTL"] # EMPTY
  /\ err = "OpType"
  /\ Len(nodes) > 1

\* the blank row was read and nothing was raised
C8_WitnessBlank ==
  /\ IsRow /\ row = EmptyRow /\ err = NoExc

(* ------------------------------- C9 ----------------------------------- *)

\* C9: a row whose OpType is "remark", or is non-empty and not exactly one
\* of "config", "view", "zone", "record", raises nothing and leaves the
\* tree unchanged whatever its other fields hold.
C9_IgnoredStep ==
  (/\ NextIsRow
   /\ \/ row'["OpType"] = <<"r","e","m","a","r","k">>
      \/ row'["OpType"] # EMPTY /\ row'["OpType"] \notin OpKnown)
    => (err' = NoExc /\ nodes' = nodes)

C9_Ignored == [][C9_IgnoredStep]_vars

\* a row with OpType "Config" and the fields of a host record was read
C9_Witness ==
  /\ IsRow /\ row["OpType"] = <<"C","o","n","f","i","g">>
  /\ Truthy(row["Config"]) /\ Truthy(row["HostAddress"])
  /\ err = NoExc

(* ------------------------------- C10 ---------------------------------- *)

\* the first empty required field of a record row in the order ParentZone,
\* RecordType, View, Config, then HostAddress (host) or Rdata (ns, a, aaaa)
FirstEmptyRequired(r) ==
  IF r["ParentZone"] = EMPTY THEN "ParentZone"
  ELSE IF r["RecordType"] = EMPTY THEN "RecordType"
  ELSE IF r["View"] = EMPTY THEN "View"
  ELSE IF r["Config"] = EMPTY THEN "Config"
  ELSE IF lower(r["RecordType"]) = <<"h","o","s","t">> /\ r["HostAddress"] = EMPTY
    THEN "HostAddress"
  ELSE IF /\ lower(r["RecordType"]) \in {<<"n","s">>, <<"a">>, <<"a","a","a","a">>}
          /\ r["Rdata"] = EMPTY
    THEN "Rdata"
  ELSE NoExc

\* C10: the EmptyFieldError a record row raises names its first empty
\* required field in the order ParentZone, RecordType, View, Config and
\* last HostAddress (host row) or Rdata (ns/a/aaaa row); a record row with
\* none of them empty raises no EmptyFieldError.
C10_FirstEmptyStep ==
  (NextIsRow /\ IsRecordRow(row') /\ err' # SyntaxError)
    => err' = FirstEmptyRequired(row')

C10_FirstEmpty == [][C10_FirstEmptyStep]_vars

\* a record row with ParentZone, RecordType, View and HostAddress all empty
\* failed on ParentZone
C10_Witness ==
  /\ IsRow /\ IsRecordRow(row) /\ err = "ParentZone"
  /\ row["ParentZone"] = EMPTY /\ row["RecordType"] = EMPTY
  /\ row["View"] = EMPTY /\ row["HostAddress"] = EMPTY

(* ------------------------------- C14 ---------------------------------- *)

\* positions of the children of element z with that tag and those attributes
PosSame(ns, z, tag, attrib) ==
  IF z = 0 THEN {}
  ELSE {i \in 1..Len(ns[z].children) :
          LET c == ns[z].children[i] IN
            ns[c].tag = tag /\ ns[c].attrib = attrib}

\* the zone a record row resolves, 0 when it is not in the tree ns
ZoneOfRecord(ns, r) ==
  LET v == ViewOf(ns, r["Config"], r["View"])
      ls == Labels(r["ParentZone"])
  IN IF v = 0 THEN 0 ELSE ZoneAt(ns, v, ls, Len(ls))

\* C14: records are never deduplicated: a record row of a recognised
\* RecordType that raises nothing adds exactly one record element, a leaf,
\* as the last child of the zone it resolves, also when that zone already
\* holds a record of the same kind with the same attributes: the number of
\* such records under the zone grows by one with every such row.
C14_NoDedupStep ==
  (/\ NextIsRow /\ IsRecordRow(row') /\ err' = NoExc
   /\ lower(row'["RecordType"]) \in RecordTypesKnown)
    => LET last == Len(nodes')
           z == ZoneOfRecord(nodes', row')
           z0 == ZoneOfRecord(nodes, row')
       IN /\ last > Len(nodes)
          /\ {i \in (Len(nodes) + 1)..last : nodes'[i].tag \in RecordTags}
               = {last}
          /\ nodes'[last].children = <<>>
          /\ z # 0
          /\ LET ch == nodes'[z].children IN
               Len(ch) > 0 /\ ch[Len(ch)] = last
          /\ Cardinality(PosSame(nodes', z, nodes'[last].tag,
                                 nodes'[last].attrib))
               = Cardinality(PosSame(nodes, z0, nodes'[last].tag,
                                     nodes'[last].attrib)) + 1

C14_NoDedup == [][C14_NoDedupStep]_vars

\* a host row was applied to a zone that already held a host with the same
\* attributes: the zone holds both
C14_Witness ==
  /\ IsRow /\ IsRecordRow(row) /\ err = NoExc
  /\ lower(row["RecordType"]) = RT_HOST
  /\ LET z == ZoneOfRecord(nodes, row) IN
       /\ z # 0
       /\ Cardinality(PosSame(nodes, z, "host",
                              nodes[Len(nodes)].attrib)) = 2
       /\ nodes[Len(nodes)].tag = "host"

(* ------------------------------- C15 ---------------------------------- *)

\* element e of ns carries attribute key with a non-empty value
NonEmptyAttr(ns, e, key) == has(ns, e, key) /\ Truthy(ns[e].attrib[key])

\* the elements the step added
Added == (Len(nodes) + 1)..Len(nodes')

\* the record row r has a RecordType that is, in any case, one of types
IsRecordOf(r, types) == IsRecordRow(r) /\ lower(r["RecordType"]) \in types

\* Config, View and ParentZone of r are filled in
Placed(r) == Truthy(r["Config"]) /\ Truthy(r["View"]) /\ Truthy(r["ParentZone"])

\* C15: in every tree every host element has a non-empty address and every
\* generic-record element a non-empty rdata. A host row with an empty
\* HostAddress, and an ns, a or aaaa row with an empty Rdata, that is not
\* stopped by a quote in a name raises a FieldEmptyException and adds no
\* host, respectively generic-record, element; the exception names
\* HostAddress, respectively Rdata, when Config, View and ParentZone are
\* filled in. A host row with an empty Name whose other required fields are
\* filled in still adds a host element, with an empty name.
C15_RequiredValueStep ==
  /\ \A e \in 1..Len(nodes') :
       /\ nodes'[e].tag = "host" => NonEmptyAttr(nodes', e, "address")
       /\ nodes'[e].tag = "generic-record" => NonEmptyAttr(nodes', e, "rdata")
  /\ (/\ NextIsRow /\ IsRecordOf(row', {RT_HOST})
      /\ ~Truthy(row'["HostAddress"]) /\ err' # SyntaxError)
       => /\ err' \in FieldErrors
          /\ Placed(row') => err' = "HostAddress"
          /\ \A e \in Added : nodes'[e].tag # "host"
  /\ (/\ NextIsRow /\ IsRecordOf(row', RT_GENERICS)
      /\ ~Truthy(row'["Rdata"]) /\ err' # SyntaxError)
       => /\ err' \in FieldErrors
          /\ Placed(row') => err' = "Rdata"
          /\ \A e \in Added : nodes'[e].tag # "generic-record"
  /\ (/\ NextIsRow /\ IsRecordOf(row', {RT_HOST})
      /\ ~Truthy(row'["Name"]) /\ Truthy(row'["HostAddress"])
      /\ Placed(row') /\ err' # SyntaxError)
       => /\ err' = NoExc
          /\ Len(nodes') > Len(nodes)
          /\ nodes'[Len(nodes')].tag = "host"
          /\ nodes'[Len(nodes')].attrib["name"] = EMPTY
          /\ nodes'[Len(nodes')].attrib["address"] = row'["HostAddress"]

C15_RequiredValue == [][C15_RequiredValueStep]_vars

\* the tree holds a host with an empty name, and a host row with an empty
\* HostAddress has just been rejected for it
C15_Witness ==
  /\ IsRow /\ IsRecordOf(row, {RT_HOST}) /\ Placed(row)
  /\ ~Truthy(row["HostAddress"]) /\ err = "HostAddress"
  /\ \E e \in 1..Len(nodes) :
       /\ nodes[e].tag = "host"
       /\ nodes[e].attrib["name"] = EMPTY
       /\ Truthy(nodes[e].attrib["address"])

(* ------------------------------- C16 ---------------------------------- *)

GenericTypes == {<<"N","S">>, <<"A">>, <<"A","A","A","A">>}

\* the type attribute expected for a RecordType that is a variant of ns, a
\* or aaaa
GenericTypeOf(rt) ==
  IF lower(rt) = <<"n","s">> THEN <<"N","S">>
  ELSE IF lower(rt) = <<"a">> THEN <<"A">>
  ELSE <<"A","A","A","A">>

\* C16: RecordType is matched whatever its case and the type of a generic
\* record is upper-cased: a record row whose RecordType is a case variant of
\* ns, a or aaaa, with Config, View, ParentZone and Rdata filled in and no
\* quote in a name, adds a generic-record element whose type is NS, A or
\* AAAA after the token; every generic-record element of every tree has a
\* type among NS, A, AAAA.
C16_UpperTypeStep ==
  /\ \A e \in 1..Len(nodes') :
       nodes'[e].tag = "generic-record"
         => has(nodes', e, "type") /\ nodes'[e].attrib["type"] \in GenericTypes
  /\ (/\ NextIsRow /\ IsRecordOf(row', RT_GENERICS)
      /\ Truthy(row'["Rdata"]) /\ Placed(row') /\ err' # SyntaxError)
       => /\ err' = NoExc
          /\ Len(nodes') > Len(nodes)
          /\ nodes'[Len(nodes')].tag = "generic-record"
          /\ nodes'[Len(nodes')].attrib["type"]
               = GenericTypeOf(row'["RecordType"])
          /\ nodes'[Len(nodes')].attrib["rdata"] = row'["Rdata"]

C16_UpperType == [][C16_UpperTypeStep]_vars

\* a row of RecordType Ns was applied: the element it added has type NS
C16_Witness ==
  /\ IsRow /\ IsRecordRow(row) /\ err = NoExc
  /\ row["RecordType"] = <<"N","s">>
  /\ nodes[Len(nodes)].tag = "generic-record"
  /\ nodes[Len(nodes)].attrib["type"] = <<"N","S">>

(* ------------------------------- C17 ---------------------------------- *)

Identifying == {"name", "address", "rdata"}

\* attributes __handle_record_srv writes without looking at the value
SrvUnconditional == {"priority", "weight", "port", "host"}

\* the field of the row an attribute is taken from
AttrSource ==
  ("name" :> "Name") @@ ("address" :> "HostAddress") @@ ("rdata" :> "Rdata")
  @@ ("ttl" :> "TTL") @@ ("on-exist" :> "on-exist")
  @@ ("deployable" :> "ZoneDeployFlag") @@ ("type" :> "RecordType")
  @@ ("priority" :> "SRV-Priority") @@ ("weight" :> "SRV-Weight")
  @@ ("port" :> "SRV-Port") @@ ("host" :> "SRV-Host")
  @@ ("order" :> "naptr-order") @@ ("preference" :> "naptr-Preference")
  @@ ("service" :> "naptr-Service") @@ ("regexp" :> "naptr-RegExp")
  @@ ("replacement" :> "naptr-Replacement") @@ ("flags" :> "naptr-Flags")

\* the attributes of element e of ns whose presence depends on the value:
\* all but the identifying ones when srv is false, all but those and the
\* four an srv element always carries when srv is true
Conditional(ns, e, srv) ==
  DOMAIN ns[e].attrib
    \ (Identifying
       \cup (IF srv /\ ns[e].tag = "srv" THEN SrvUnconditional ELSE {}))

\* C17 as stated: apart from name, address and rdata no attribute of any
\* element of any tree holds the empty string.
C17_NoEmptyAttribute ==
  \A e \in 1..Len(nodes) :
    \A k \in Conditional(nodes, e, FALSE) : Truthy(nodes[e].attrib[k])

\* C17: apart from name, address and rdata, and from priority, weight, port
\* and host of an srv element, an attribute is on an element only if the
\* field it is taken from was non-empty in the row that created the
\* element, and it never holds the empty string.
C17_ConditionalStep ==
  /\ \A e \in 1..Len(nodes') :
       \A k \in Conditional(nodes', e, TRUE) : Truthy(nodes'[e].attrib[k])
  /\ NextIsRow =>
       \A e \in Added :
         \A k \in Conditional(nodes', e, TRUE) :
           k \in DOMAIN AttrSource /\ Truthy(row'[AttrSource[k]])

C17_Conditional == [][C17_ConditionalStep]_vars

\* a naptr row with only naptr-order filled in and an srv row with nothing
\* filled in were applied: the naptr element has order and no preference,
\* the srv element has an empty priority
C17_Witness ==
  /\ IsRow /\ err = NoExc
  /\ \E e \in 1..Len(nodes) :
       /\ nodes[e].tag = "naptr"
       /\ has(nodes, e, "order") /\ ~has(nodes, e, "preference")
  /\ \E e \in 1..Len(nodes) :
       /\ nodes[e].tag = "srv"
       /\ has(nodes, e, "priority") /\ nodes[e].attrib["priority"] = EMPTY

(* ------------------------------- C18 ---------------------------------- *)

\* C18: an srv row is never rejected for an empty field of the record: the
\* only FieldEmptyException it can raise names Config, View or ParentZone,
\* the fields every record row needs to resolve its zone. When these are
\* filled in and no name holds a quote, the row raises nothing and adds an
\* srv leaf that carries name, priority, weight, port and host with the
\* values of the row, the empty string for an empty field, and carries ttl
\* and on-exist exactly when their fields are non-empty.
C18_SrvStep ==
  (NextIsRow /\ IsRecordOf(row', {RT_SRV})) =>
    /\ err' \in {NoExc, SyntaxError, "Config", "View", "ParentZone"}
    /\ (Placed(row') /\ err' # SyntaxError) =>
         LET e == Len(nodes')
             a == nodes'[e].attrib
         IN /\ err' = NoExc
            /\ e > Len(nodes)
            /\ nodes'[e].tag = "srv"
            /\ nodes'[e].children = <<>>
            /\ {"name", "priority", "weight", "port", "host"} \subseteq DOMAIN a
            /\ DOMAIN a \subseteq {"name", "priority", "weight", "port",
                                   "host", "ttl", "on-exist"}
            /\ a["name"] = row'["Name"]
            /\ a["priority"] = row'["SRV-Priority"]
            /\ a["weight"] = row'["SRV-Weight"]
            /\ a["port"] = row'["SRV-Port"]
            /\ a["host"] = row'["SRV-Host"]
            /\ "ttl" \in DOMAIN a <=> Truthy(row'["TTL"])
            /\ "on-exist" \in DOMAIN a <=> Truthy(row'["on-exist"])
            /\ "ttl" \in DOMAIN a => a["ttl"] = row'["TTL"]
            /\ "on-exist" \in DOMAIN a => a["on-exist"] = row'["on-exist"]

C19_NoPropagationStep ==
  NextIsRow =>
    /\ \A e \in Added :
         LET a == nodes'[e].attrib
             t == nodes'[e].tag
         IN /\ (t = "configuration" /\ "on-exist" \in DOMAIN a)
                 => /\ IsConfigRow(row') /\ Truthy(row'["on-exist"])
                    /\ a["on-exist"] = row'["on-exist"]
            /\ (t = "view" /\ "on-exist" \in DOMAIN a)
                 => /\ IsViewRow(row') /\ Truthy(row'["on-exist"])
                    /\ a["on-exist"] = row'["on-exist"]
            /\ (t = "configuration" /\ ~IsConfigRow(row'))
                 => a = ("name" :> row'["Config"])
            /\ (t = "view" /\ ~IsViewRow(row'))
                 => a = ("name" :> row'["View"])
            /\ (t = "zone" /\ IsRecordRow(row')) => DOMAIN a = {"name"}
    /\ \A e \in 1..Len(nodes) :
         \A k \in {"on-exist", "deployable"} :
           has(nodes', e, k) <=> has(nodes, e, k)

C19_NoPropagation == [][C19_NoPropagationStep]_vars

\* a view row with on-exist, applied to the empty tree, created the
\* configuration without on-exist and the view with it
C19_Witness ==
  /\ IsRow /\ IsViewRow(row) /\ err = NoExc /\ Truthy(row["on-exist"])
  /\ Len(nodes) = 3
  /\ nodes[2].tag = "configuration"
  /\ nodes[2].attrib = ("name" :> row["Config"])
  /\ nodes[3].tag = "view"
  /\ nodes[3].attrib
       = ("name" :> row["View"]) @@ ("on-exist" :> row["on-exist"])
  /\ nodes[2].children = <<3>>

(* ------------------------------- C20 ---------------------------------- *)

\* the tags an element with tag t may have as children
ChildKinds(t) ==
  IF t = "data" THEN {"configuration"}
  ELSE IF t = "configuration" THEN {"view"}
  ELSE IF t = "view" THEN {"zone"}
  ELSE IF t = "zone" THEN {"zone"} \cup RecordTags
  ELSE {}

Absent == {i \in 1..Len(HeaderAll) : HeaderAll[i] \notin fieldnames}

\* C12: there are 21 required field names. When one of them is absent from
\* the declared field names, header validation fails the run with the
\* HeaderMissingException that names the first absent one in the order of
\* Header.all(), before any row is applied: the tree is still the empty
\* root, no row was read, and the run never applies a row nor reaches
\* write_to_file. When all are present, validation raises nothing and the
\* run goes on to the rows.
C12_HeaderStep ==
  /\ Len(HeaderAll) = 21 /\ Cardinality(Headers) = 21
  /\ (pc = "validate" /\ pc' # "validate") =>
       IF Absent = {}
       THEN err' = NoExc /\ pc' = "rows"
       ELSE /\ pc' = "failed"
            /\ err' = HeaderMissing(
                 HeaderAll[CHOOSE i \in Absent : \A j \in Absent : i <= j])
            /\ nodes' = <<Element("data")>>
            /\ row' = NoRow /\ line_count' = 0
  /\ Absent # {} =>
       /\ pc' \notin {"rows", "written"}
       /\ nodes' = <<Element("data")>> /\ row' = NoRow

C12_Header == [][C12_HeaderStep]_vars

\* Config and Rdata are absent: the run has failed naming Config
C12_Witness ==
  /\ pc = "failed"
  /\ fieldnames = Headers \ {"Rdata", "Config"}
  /\ err = "Header 'Config' is missing."
  /\ nodes = <<Element("data")>>

(* ------------------------------- C11 ---------------------------------- *)

\* what extract returns on row n of f when the rows of f are applied in
\* order, starting from the empty root
RECURSIVE Outcome(_, _)
Outcome(f, n) ==
  LET before == IF n = 1 THEN <<Element("data")>> ELSE Outcome(f, n - 1).nodes
  IN extract(before, f[n])

\* the tree after the first n rows of f
Applied(f, n) == IF n = 0 THEN <<Element("data")>> ELSE Outcome(f, n).nodes

\* what extract raises on row n of f
Raised(f, n) == Outcome(f, n).exc

\* no row of f fails with anything but a FieldEmptyException
OnlyFieldErrors(f) ==
  \A n \in 1..Len(f) : Raised(f, n) \in FieldErrors \cup {NoExc}

C11_Finite ==
  /\ Headers \subseteq fieldnames
  /\ ~csv_file.open
  /\ OnlyFieldErrors(csv_file.rows)

\* C11: over a file with a complete header whose rows raise nothing but
\* FieldEmptyExceptions, every iteration applies the next row of the file
\* to the tree the rows before it left, after a row that raises a
\* FieldEmptyException the loop goes on with the row after it,
\* write_to_file is reached only when every row has been applied once, in
\* file order, and it is eventually reached.
C11_LoopStep ==
  /\ (NextIsRow /\ ~csv_file.open) =>
       /\ RowsRead < Len(csv_file.rows)
       /\ row' = csv_file.rows[RowsRead + 1]
       /\ nodes = Applied(csv_file.rows, RowsRead)
       /\ nodes' = Applied(csv_file.rows, RowsRead + 1)
       /\ err' = Raised(csv_file.rows, RowsRead + 1)
       /\ err' \in FieldErrors \cup {NoExc} =>
            /\ pc' = "rows"
            /\ line_count' = RowsRead + 2
  /\ (pc' = "written" /\ ~csv_file.open) =>
       /\ RowsRead' = Len(csv_file.rows)
       /\ nodes' = Applied(csv_file.rows, Len(csv_file.rows))
       /\ OnlyFieldErrors(csv_file.rows)

C11_Run == [][C11_LoopStep]_vars /\ (C11_Finite ~> pc = "written")

\* a file whose second row is rejected and whose third row adds to the
\* tree has been read to its end
C11_Witness ==
  /\ pc = "written" /\ ~csv_file.open
  /\ Len(csv_file.rows) >= 3
  /\ Raised(csv_file.rows, 2) = "View"
  /\ Len(Applied(csv_file.rows, 3)) > Len(Applied(csv_file.rows, 2))
  /\ nodes = Applied(csv_file.rows, Len(csv_file.rows))

(* ------------------------------- C13 ---------------------------------- *)

\* the single path the worked example describes
ScenarioTree ==
  << [tag |-> "data", attrib |-> <<>>, children |-> <<2>>],
     [tag |-> "configuration", attrib |-> ("name" :> Ex1),
      children |-> <<3>>],
     [tag |-> "view", attrib |-> ("name" :> V1), children |-> <<4>>],
     [tag |-> "zone", attrib |-> ("name" :> <<"c","o","m">>),
      children |-> <<5>>],
     [tag |-> "zone",
      attrib |-> ("name" :> <<"e","x","a","m","p","l","e">>),
      children |-> <<6>>],
     [tag |-> "zone",
      attrib |-> ("name" :> <<"s","u","b">>)
                 @@ ("deployable" :> <<"t","r","u","e">>),
      children |-> <<7>>],
     [tag |-> "host",
      attrib |-> ("name" :> www) @@ ("address" :> address_10_0_0_1),
      children |-> <<>>] >>

\* C13: the file with the rows config(Ex1), view(Ex1, V1), zone(sub,
\* example.com, ZoneDeployFlag 1), record(host, www, sub.example.com,
\* 10.0.0.1), read from the empty tree, leaves exactly the path data >
\* configuration[name=Ex1] > view[name=V1] > zone[name=com] >
\* zone[name=example] > zone[name=sub, deployable=true] > host[name=www,
\* address=10.0.0.1]: no other element and no other attribute.
C13_Scenario ==
  (pc = "written" /\ csv_file = File(Scenario)) => nodes = ScenarioTree

\* the file of the worked example has been read to its end
C13_Witness ==
  /\ pc = "written" /\ csv_file = File(Scenario)
  /\ line_count = 5 /\ err = NoExc
  /\ Len(nodes) = 7

====
